---- MODULE Spec2Model ----
(***************************************************************************)
(* Model of the polling loops of LeonardoClient (leonardo_cli.py):         *)
(* wait_for_generation, wait_for_motion_generation and wait_for_variation, *)
(* and of the copy of wait_for_generation in leonardo_cli_fixed.py;        *)
(* further down, of the commands around them (generate, video, variation), *)
(* of the config file and its commands, of the interactive shell, of       *)
(* BatchProcessor.process_batch and of LeonardoClient.list_models.         *)
(*                                                                         *)
(* Time is counted in whole seconds.  The clock `now` is what time.time()  *)
(* returns; it advances only in time.sleep, i.e. a status fetch and the    *)
(* bookkeeping around it take negligible time.                             *)
(*                                                                         *)
(* A python dict is a function whose DOMAIN is the set of its keys.  A     *)
(* formatted string (f-string) is a record [fmt, args]: the format with    *)
(* {} for each interpolated value, and the tuple of interpolated values.   *)
(***************************************************************************)
EXTENDS Integers, Sequences, FiniteSets, TLC

VARIABLES
    pc,          \* "idle" (not called yet), "loop" (at the while test), "done"
    fn,          \* the wait function that was called
    vtype,       \* variation_type argument (wait_for_variation only)
    timeout,     \* the timeout argument
    now,         \* the wall clock, time.time()
    start_time,  \* local start_time
    fetches,     \* results of the status fetches made so far, in order
    sleeps,      \* arguments of the time.sleep calls made so far, in order
    sink,        \* descriptions given to the progress task so far, in order
    outcome,     \* how the call ended: returned value or raised exception
    job_id,      \* the generation_id / variation_id argument
    tid,         \* the thread that runs the invocation held in the variables above
    wake,        \* the time at which that thread's time.sleep returns
    other,       \* the locals of an invocation running in another thread
    console,     \* the module-level console: the threads whose Progress is live on it
    cmd,         \* the generate / video / variation command that is running
    cmd_pc,      \* "idle", "wait" (inside the wait function), "end"
    downloads,   \* the artifact URLs requested by the command, in order
    files,       \* the output files written by the command, in order
    display,     \* what the command printed inside its try block, in order
    config,      \* the config file: what load_config() returns
    run,         \* the last run of a config command or of user: arguments and effects
    shell,       \* the interactive shell: where it is and how its last input went
    batch,       \* the call of BatchProcessor.process_batch: arguments and effects
    listing      \* the call of LeonardoClient.list_models: answers and effects

\* the locals of one invocation
locals == <<pc, fn, vtype, timeout, start_time, fetches, sleeps, sink, outcome, job_id>>

\* the state of the wait functions
poll_vars == <<pc, fn, vtype, timeout, now, start_time, fetches, sleeps, sink, outcome,
               job_id, tid, wake, other, console>>

\* the state of a command around its wait function
command_vars == <<cmd, cmd_pc, downloads, files, display>>

\* the state of the rest of the command-line tool
tool_vars == <<config, run, shell, batch, listing>>

vars == <<pc, fn, vtype, timeout, now, start_time, fetches, sleeps, sink, outcome,
          job_id, tid, wake, other, console,
          cmd, cmd_pc, downloads, files, display, config, run, shell, batch, listing>>

----------------------------------------------------------------------------
(* Bounds of the model *)

MaxTimeout == 11
MaxClockStart == 1
MaxThreadTimeout == 4

\* timeout arguments tried, a negative one included
Timeouts == -1..MaxTimeout
ClockStarts == 0..MaxClockStart

----------------------------------------------------------------------------
(* Values *)

Msg(f, a) == [fmt |-> f, args |-> a]

\* dict.get(key, default)
Get(d, k, default) == IF k \in DOMAIN d THEN d[k] ELSE default

VariationTypes == {"upscale", "unzoom", "no_background"}

\* str.capitalize() on the variation types
Capitalize(s) ==
    CASE s = "upscale" -> "Upscale"
      [] s = "unzoom" -> "Unzoom"
      [] s = "no_background" -> "No_background"
      [] OTHER -> s

\* JSON bodies a status endpoint may answer with
StatusRecords ==
    { [id |-> "job"] }
    \cup { [id |-> "job", status |-> s] :
             s \in {"", "PENDING", "RUNNING", "CANCELLED", "COMPLETE", "FAILED"} }
    \cup { [id |-> "job", status |-> "FAILED", error |-> "out of credits"] }

\* exceptions raised by requests.get / raise_for_status / response.json
FetchErrors == { Msg("ConnectionError", <<>>) }

NoRecord == [id |-> "none"]
NoError == Msg("", <<>>)

\* what one call of get_generation / get_motion_generation / get_variation does
FetchResults ==
    { [ok |-> TRUE, rec |-> r, exc |-> NoError] : r \in StatusRecords }
    \cup { [ok |-> FALSE, rec |-> NoRecord, exc |-> e] : e \in FetchErrors }

\* the ids that the commands hand to the wait functions: they return before
\* waiting when the API gave no id
JobHandles == {"job"}

\* the ids a direct caller of a wait function can pass
AnyHandles == {"", "job"}

WaitFunctions ==
    { "wait_for_generation", "wait_for_motion_generation", "wait_for_variation",
      "fixed.wait_for_generation" }

\* time.sleep(3) / time.sleep(5) of wait_for_generation
PollIntervalSeconds == 3
ErrorBackoffSeconds == 5

\* the same two calls in wait_for_motion_generation
MotionPollIntervalSeconds == 3
MotionErrorBackoffSeconds == 5

\* in wait_for_variation
VariationPollIntervalSeconds == 3
VariationErrorBackoffSeconds == 5

\* and in wait_for_generation of leonardo_cli_fixed.py
FixedPollIntervalSeconds == 3
FixedErrorBackoffSeconds == 5

\* variant: the interval of one copy has drifted from the others
PollIntervalDrifted(f) ==
    CASE f = "wait_for_generation" -> PollIntervalSeconds
      [] f = "wait_for_motion_generation" -> MotionPollIntervalSeconds - 1
      [] f = "wait_for_variation" -> VariationPollIntervalSeconds
      [] OTHER -> FixedPollIntervalSeconds

\* the argument of the time.sleep in the try block of wait function f
PollInterval(f) ==
    CASE f = "wait_for_generation" -> PollIntervalSeconds
      [] f = "wait_for_motion_generation" -> MotionPollIntervalSeconds
      [] f = "wait_for_variation" -> VariationPollIntervalSeconds
      [] OTHER -> FixedPollIntervalSeconds

\* the argument of the time.sleep in the except clause of wait function f
ErrorBackoff(f) ==
    CASE f = "wait_for_generation" -> ErrorBackoffSeconds
      [] f = "wait_for_motion_generation" -> MotionErrorBackoffSeconds
      [] f = "wait_for_variation" -> VariationErrorBackoffSeconds
      [] OTHER -> FixedErrorBackoffSeconds

----------------------------------------------------------------------------
(* The texts of the loops *)

GenerationLabels ==
    [ task      |-> Msg("[yellow]Waiting for generation...", <<>>),
      complete  |-> Msg("[green]Generation complete!", <<>>),
      failed    |-> Msg("[red]Generation failed!", <<>>),
      failedExc |-> "Generation failed: {}",
      waiting   |-> "[yellow]Waiting for generation... ({}s)",
      waitingArgs |-> <<>>,
      timedOut  |-> Msg("[red]Generation timed out!", <<>>),
      timeoutExc |-> "Generation timed out after {} seconds" ]

MotionLabels ==
    [ task      |-> Msg("[yellow]Waiting for video generation...", <<>>),
      complete  |-> Msg("[green]Video generation complete!", <<>>),
      failed    |-> Msg("[red]Video generation failed!", <<>>),
      failedExc |-> "Generation failed: {}",
      waiting   |-> "[yellow]Waiting for video generation... ({}s)",
      waitingArgs |-> <<>>,
      timedOut  |-> Msg("[red]Video generation timed out!", <<>>),
      timeoutExc |-> "Motion generation timed out after {} seconds" ]

VariationLabels(vt) ==
    [ task      |-> Msg("[yellow]Waiting for {} to complete...", <<vt>>),
      complete  |-> Msg("[green]{} complete!", <<Capitalize(vt)>>),
      failed    |-> Msg("[red]{} failed!", <<Capitalize(vt)>>),
      failedExc |-> "Variation failed: {}",
      waiting   |-> "[yellow]Waiting for {} to complete... ({}s)",
      waitingArgs |-> <<vt>>,
      timedOut  |-> Msg("[red]{} timed out!", <<Capitalize(vt)>>),
      timeoutExc |-> "Variation timed out after {} seconds" ]

\* leonardo_cli_fixed.py
FixedGenerationLabels ==
    [ task      |-> Msg("[yellow]Waiting for generation...", <<>>),
      complete  |-> Msg("[green]Generation complete!", <<>>),
      failed    |-> Msg("[red]Generation failed!", <<>>),
      failedExc |-> "Generation failed: {}",
      waiting   |-> "[yellow]Waiting for generation... ({}s)",
      waitingArgs |-> <<>>,
      timedOut  |-> Msg("[red]Generation timed out!", <<>>),
      timeoutExc |-> "Generation timed out after {} seconds" ]

Labels(f, vt) ==
    CASE f = "wait_for_generation" -> GenerationLabels
      [] f = "wait_for_motion_generation" -> MotionLabels
      [] f = "fixed.wait_for_generation" -> FixedGenerationLabels
      [] OTHER -> VariationLabels(vt)

----------------------------------------------------------------------------
(* The loop *)

NoOutcome == [kind |-> "none", value |-> NoRecord, exc |-> NoError]
Return(v) == [kind |-> "return", value |-> v, exc |-> NoError]
Raise(e) == [kind |-> "raise", value |-> NoRecord, exc |-> e]

\* time.time() - start_time
Elapsed == now - start_time

\* variant: the clock is compared to the timeout without subtracting start_time
LoopCondAbsoluteClock == now < timeout

\* variant: the while test lets an iteration run when the budget is just used up
LoopCondInclusive == Elapsed <= timeout

\* the while condition: time.time() - start_time < timeout
LoopCond == Elapsed < timeout

\* variant: the handler backs off twice as long
ExceptHandlerDoubleBackoff(e, updates) ==
    [ ends   |-> FALSE,
      result |-> NoOutcome,
      sink   |-> updates \o <<Msg("[red]Error checking status: {}", <<e>>)>>,
      sleep  |-> <<2 * ErrorBackoff(fn)>> ]

\* variant: no except clause, the exception leaves the function
ExceptHandlerReraises(e, updates) ==
    [ ends   |-> TRUE,
      result |-> Raise(e),
      sink   |-> updates,
      sleep  |-> <<>> ]

\* variant: the handler swallows the exception without telling the task
ExceptHandlerSilent(e, updates) ==
    [ ends   |-> FALSE,
      result |-> NoOutcome,
      sink   |-> updates,
      sleep  |-> <<ErrorBackoff(fn)>> ]

\* the except clause: any Exception raised in the try body lands here,
\* whether get_*() raised it or the FAILED branch did
ExceptHandler(e, updates) ==
    [ ends   |-> FALSE,
      result |-> NoOutcome,
      sink   |-> updates \o <<Msg("[red]Error checking status: {}", <<e>>)>>,
      sleep  |-> <<ErrorBackoff(fn)>> ]

\* the FAILED branch: update the task, then raise inside the try block
FailedBranch(L, generation) ==
    ExceptHandler(Msg(L.failedExc, <<Get(generation, "error", "Unknown error")>>),
                  <<L.failed>>)

\* variant: COMPLETE updates the task but the return is missing
CompleteBranchKeepsPolling(L, generation) ==
    [ ends   |-> FALSE,
      result |-> NoOutcome,
      sink   |-> <<L.complete, Msg(L.waiting, L.waitingArgs \o <<Elapsed>>)>>,
      sleep  |-> <<PollInterval(fn)>> ]

\* variant: the loop sleeps before it looks at the status
CompleteBranchSleepsFirst(L, generation) ==
    [ ends   |-> TRUE,
      result |-> Return(generation),
      sink   |-> <<L.complete>>,
      sleep  |-> <<PollInterval(fn)>> ]

\* the COMPLETE branch: update the task, return the record
CompleteBranch(L, generation) ==
    [ ends   |-> TRUE,
      result |-> Return(generation),
      sink   |-> <<L.complete>>,
      sleep  |-> <<>> ]

\* variant: the waiting branch sleeps the error backoff
WaitingBranchBackoff(L) ==
    [ ends   |-> FALSE,
      result |-> NoOutcome,
      sink   |-> <<Msg(L.waiting, L.waitingArgs \o <<Elapsed>>)>>,
      sleep  |-> <<ErrorBackoff(fn)>> ]

\* variant: the task shows the seconds that remain instead of those elapsed
WaitingBranchReportsRemaining(L) ==
    [ ends   |-> FALSE,
      result |-> NoOutcome,
      sink   |-> <<Msg(L.waiting, L.waitingArgs \o <<timeout - Elapsed>>)>>,
      sleep  |-> <<PollInterval(fn)>> ]

\* variant: the interval grows with the number of fetches made
WaitingBranchGrowing(L) ==
    [ ends   |-> FALSE,
      result |-> NoOutcome,
      sink   |-> <<Msg(L.waiting, L.waitingArgs \o <<Elapsed>>)>>,
      sleep  |-> <<PollInterval(fn) * (Len(fetches) + 1)>> ]

\* neither COMPLETE nor FAILED: report elapsed = int(time.time() - start_time)
\* (the clock difference is a whole number of seconds here), then sleep
WaitingBranch(L) ==
    [ ends   |-> FALSE,
      result |-> NoOutcome,
      sink   |-> <<Msg(L.waiting, L.waitingArgs \o <<Elapsed>>)>>,
      sleep  |-> <<PollInterval(fn)>> ]

\* variant: status = generation["status"], a KeyError when the field is absent
TryBodyStrictStatus(L, r) ==
    IF ~r.ok
    THEN ExceptHandler(r.exc, <<>>)
    ELSE LET generation == r.rec
         IN  IF "status" \notin DOMAIN generation
             THEN ExceptHandler(Msg("KeyError: status", <<>>), <<>>)
             ELSE IF generation.status = "COMPLETE" THEN CompleteBranch(L, generation)
             ELSE IF generation.status = "FAILED" THEN FailedBranch(L, generation)
             ELSE WaitingBranch(L)

\* one pass through try/except with the given result of the status fetch
TryBody(L, r) ==
    IF ~r.ok
    THEN ExceptHandler(r.exc, <<>>)
    ELSE LET generation == r.rec
             status == Get(generation, "status", "")
         IN  IF status = "COMPLETE" THEN CompleteBranch(L, generation)
             ELSE IF status = "FAILED" THEN FailedBranch(L, generation)
             ELSE WaitingBranch(L)

RECURSIVE Sum(_)
Sum(s) == IF s = <<>> THEN 0 ELSE Head(s) + Sum(Tail(s))

\* an optional value (None or a value) is a sequence of at most one element
None == <<>>
Some(x) == <<x>>

\* load_config() when the config file does not exist
NoFile == [exists |-> FALSE]

\* no command has run yet
NoRun ==
    [ cmd |-> "none", args |-> <<>>, exit_code |-> 0, printed |-> <<>>,
      clients |-> <<>>, requests |-> <<>> ]

\* the shell command has not been started
ShellOff == [pc |-> "off", input |-> [kind |-> "none", text |-> <<>>], raised |-> "none"]

\* process_batch has not been called
NoBatch ==
    [ called |-> FALSE, prompts |-> <<>>, answers |-> <<>>, submitted |-> <<>>,
      results |-> <<>> ]

\* list_models has not been called
NoListing ==
    [ called |-> FALSE, answers |-> <<>>, requests |-> <<>>, warnings |-> <<>>,
      result |-> NoOutcome ]

\* the locals of an invocation that thread t has not made yet
NotCalled(t) ==
    [ pc |-> "idle", fn |-> "none", vtype |-> "none", timeout |-> 0, start_time |-> 0,
      fetches |-> <<>>, sleeps |-> <<>>, sink |-> <<>>, outcome |-> NoOutcome,
      job_id |-> "", tid |-> t, wake |-> 0 ]

Init ==
    /\ pc = "idle"
    /\ fn = "none"
    /\ vtype = "none"
    /\ timeout = 0
    /\ now \in ClockStarts
    /\ start_time = 0
    /\ fetches = <<>>
    /\ sleeps = <<>>
    /\ sink = <<>>
    /\ outcome = NoOutcome
    /\ job_id = ""
    /\ tid = 1
    /\ wake = 0
    /\ other = NotCalled(2)
    /\ console = {}
    /\ cmd = "none"
    /\ cmd_pc = "idle"
    /\ downloads = <<>>
    /\ files = <<>>
    /\ display = <<>>
    /\ config = NoFile
    /\ run = NoRun
    /\ shell = ShellOff
    /\ batch = NoBatch
    /\ listing = NoListing

\* entry of a wait function: start_time = time.time(), the Progress goes live
\* on the console, progress.add_task(...)
Enter(f, vt, id, t) ==
    /\ pc = "idle"
    /\ pc' = "loop"
    /\ fn' = f
    /\ vtype' = vt
    /\ job_id' = id
    /\ timeout' = t
    /\ start_time' = now
    /\ console' = console \cup {tid}
    /\ sink' = <<Labels(f, vt).task>>
    /\ UNCHANGED <<now, fetches, sleeps, outcome, tid, wake, other>>

wait_for_generation(id, t) ==
    /\ Enter("wait_for_generation", "none", id, t)
    /\ UNCHANGED <<command_vars, tool_vars>>

wait_for_motion_generation(id, t) ==
    /\ Enter("wait_for_motion_generation", "none", id, t)
    /\ UNCHANGED <<command_vars, tool_vars>>

wait_for_variation(id, vt, t) ==
    /\ Enter("wait_for_variation", vt, id, t)
    /\ UNCHANGED <<command_vars, tool_vars>>

\* leonardo_cli_fixed.py
fixed_wait_for_generation(id, t) ==
    /\ Enter("fixed.wait_for_generation", "none", id, t)
    /\ UNCHANGED <<command_vars, tool_vars>>

\* one iteration of the while loop: the test holds, the status is fetched,
\* the try/except runs, and the loop sleeps unless it returned
LoopIteration(r) ==
    /\ pc = "loop"
    /\ LoopCond
    /\ LET step == TryBody(Labels(fn, vtype), r) IN
        /\ fetches' = Append(fetches, r)
        /\ sink' = sink \o step.sink
        /\ sleeps' = sleeps \o step.sleep
        /\ now' = now + Sum(step.sleep)
        /\ outcome' = step.result
        /\ pc' = IF step.ends THEN "done" ELSE "loop"
        /\ console' = IF step.ends THEN console \ {tid} ELSE console
    /\ UNCHANGED <<fn, vtype, timeout, start_time, job_id, tid, wake, other>>
    /\ UNCHANGED <<command_vars, tool_vars>>

\* variant: the message reports the elapsed seconds instead of the timeout
LoopExitReportsElapsed ==
    /\ pc = "loop"
    /\ ~LoopCond
    /\ sink' = Append(sink, Labels(fn, vtype).timedOut)
    /\ outcome' = Raise(Msg(Labels(fn, vtype).timeoutExc, <<Elapsed>>))
    /\ pc' = "done"
    /\ console' = console \ {tid}
    /\ UNCHANGED <<fn, vtype, timeout, now, start_time, fetches, sleeps,
                   job_id, tid, wake, other>>
    /\ UNCHANGED <<command_vars, tool_vars>>

\* variant: on timeout the last fetch exception, if any, is raised again
LoopExitRaisesLastError ==
    /\ pc = "loop"
    /\ ~LoopCond
    /\ sink' = Append(sink, Labels(fn, vtype).timedOut)
    /\ outcome' = IF fetches # <<>> /\ ~fetches[Len(fetches)].ok
                  THEN Raise(fetches[Len(fetches)].exc)
                  ELSE Raise(Msg(Labels(fn, vtype).timeoutExc, <<timeout>>))
    /\ pc' = "done"
    /\ console' = console \ {tid}
    /\ UNCHANGED <<fn, vtype, timeout, now, start_time, fetches, sleeps,
                   job_id, tid, wake, other>>
    /\ UNCHANGED <<command_vars, tool_vars>>

\* the while test fails: update the task, raise the timeout exception
LoopExit ==
    /\ pc = "loop"
    /\ ~LoopCond
    /\ sink' = Append(sink, Labels(fn, vtype).timedOut)
    /\ outcome' = Raise(Msg(Labels(fn, vtype).timeoutExc, <<timeout>>))
    /\ pc' = "done"
    /\ console' = console \ {tid}
    /\ UNCHANGED <<fn, vtype, timeout, now, start_time, fetches, sleeps,
                   job_id, tid, wake, other>>
    /\ UNCHANGED <<command_vars, tool_vars>>

Next ==
    \/ \E id \in JobHandles, t \in Timeouts : wait_for_generation(id, t)
    \/ \E id \in JobHandles, t \in Timeouts : wait_for_motion_generation(id, t)
    \/ \E id \in JobHandles, vt \in VariationTypes, t \in Timeouts :
          wait_for_variation(id, vt, t)
    \/ \E id \in JobHandles, t \in Timeouts : fixed_wait_for_generation(id, t)
    \/ \E r \in FetchResults : LoopIteration(r)
    \/ LoopExit

Spec == Init /\ [][Next]_vars

\* the wait functions called directly, with any id
HandleNext ==
    \/ \E id \in AnyHandles, t \in Timeouts : wait_for_generation(id, t)
    \/ \E id \in AnyHandles, t \in Timeouts : wait_for_motion_generation(id, t)
    \/ \E id \in AnyHandles, vt \in VariationTypes, t \in Timeouts :
          wait_for_variation(id, vt, t)
    \/ \E id \in AnyHandles, t \in Timeouts : fixed_wait_for_generation(id, t)
    \/ \E r \in FetchResults : LoopIteration(r)
    \/ LoopExit

HandleSpec == Init /\ [][HandleNext]_vars

----------------------------------------------------------------------------
(* Two invocations in two threads.  The variables hold the locals of the    *)
(* thread that is looked at, `other` those of the second thread; the clock  *)
(* and the module-level console are the same for both.  A thread in         *)
(* time.sleep runs again when the clock has reached its wake time.          *)

ThreadTimeouts == {1, MaxThreadTimeout}

ThreadFunctions == {"wait_for_generation", "wait_for_variation"}

ThreadFetchResults ==
    { r \in FetchResults :
        ~r.ok \/ r.rec \in { [id |-> "job", status |-> "PENDING"],
                             [id |-> "job", status |-> "COMPLETE"],
                             [id |-> "job", status |-> "FAILED"] } }

\* the locals of the thread looked at, as a record
Current ==
    [ pc |-> pc, fn |-> fn, vtype |-> vtype, timeout |-> timeout,
      start_time |-> start_time, fetches |-> fetches, sleeps |-> sleeps,
      sink |-> sink, outcome |-> outcome, job_id |-> job_id, tid |-> tid,
      wake |-> wake ]

Runnable(c) == c.pc = "loop" /\ c.wake <= now
Sleeping(c) == c.pc = "loop" /\ c.wake > now

\* a thread calls a wait function; the console may already carry the live
\* Progress of the other thread
ThreadEnter(f, id, t) ==
    /\ Enter(f, IF f = "wait_for_variation" THEN "upscale" ELSE "none", id, t)
    /\ UNCHANGED <<command_vars, tool_vars>>

\* Progress.__enter__ on a console that already has a live display: the
\* console refuses the second display (rich.errors.LiveError) in the Rich
\* releases that allow one live display per console; the exception is raised
\* by the with statement, before the loop
ThreadEnterLiveError(f, id, t) ==
    /\ pc = "idle"
    /\ console # {}
    /\ pc' = "done"
    /\ fn' = f
    /\ vtype' = IF f = "wait_for_variation" THEN "upscale" ELSE "none"
    /\ job_id' = id
    /\ timeout' = t
    /\ start_time' = now
    /\ outcome' = Raise(Msg("Only one live display may be active at once", <<>>))
    /\ UNCHANGED <<now, fetches, sleeps, sink, tid, wake, other, console>>
    /\ UNCHANGED <<command_vars, tool_vars>>

\* one iteration of the loop in a thread: as LoopIteration, but time.sleep
\* suspends this thread only
ThreadIteration(r) ==
    /\ Runnable(Current)
    /\ LoopCond
    /\ LET step == TryBody(Labels(fn, vtype), r) IN
        /\ fetches' = Append(fetches, r)
        /\ sink' = sink \o step.sink
        /\ sleeps' = sleeps \o step.sleep
        /\ wake' = now + Sum(step.sleep)
        /\ outcome' = step.result
        /\ pc' = IF step.ends THEN "done" ELSE "loop"
        /\ console' = IF step.ends THEN console \ {tid} ELSE console
    /\ UNCHANGED <<fn, vtype, timeout, start_time, job_id, tid, now, other>>
    /\ UNCHANGED <<command_vars, tool_vars>>

ThreadExit ==
    /\ Runnable(Current)
    /\ LoopExit

\* look at the second thread
Switch ==
    /\ other' = Current
    /\ pc' = other.pc
    /\ fn' = other.fn
    /\ vtype' = other.vtype
    /\ timeout' = other.timeout
    /\ start_time' = other.start_time
    /\ fetches' = other.fetches
    /\ sleeps' = other.sleeps
    /\ sink' = other.sink
    /\ outcome' = other.outcome
    /\ job_id' = other.job_id
    /\ tid' = other.tid
    /\ wake' = other.wake
    /\ UNCHANGED <<now, console>>
    /\ UNCHANGED <<command_vars, tool_vars>>

\* a second passes while no thread can run and one is in time.sleep
Tick ==
    /\ ~Runnable(Current) /\ ~Runnable(other)
    /\ Sleeping(Current) \/ Sleeping(other)
    /\ now' = now + 1
    /\ UNCHANGED <<locals, tid, wake, other, console>>
    /\ UNCHANGED <<command_vars, tool_vars>>

ThreadNext ==
    \/ \E f \in ThreadFunctions, id \in JobHandles, t \in ThreadTimeouts :
          ThreadEnter(f, id, t)
    \/ \E f \in ThreadFunctions, id \in JobHandles, t \in ThreadTimeouts :
          ThreadEnterLiveError(f, id, t)
    \/ \E r \in ThreadFetchResults : ThreadIteration(r)
    \/ ThreadExit
    \/ Switch
    \/ Tick

ThreadSpec == Init /\ [][ThreadNext]_vars

\* the loop is sequential code: once called it keeps running
FairSpec == Spec /\ WF_vars(\E r \in FetchResults : LoopIteration(r)) /\ WF_vars(LoopExit)

TypeOK ==
    /\ pc \in {"idle", "loop", "done"}
    /\ timeout \in Timeouts
    /\ Len(sleeps) <= Len(fetches)

----------------------------------------------------------------------------
(* Vocabulary of the properties *)

Last(q) == q[Len(q)]

\* the status the loop reads from a successful fetch
StatusOf(r) == Get(r.rec, "status", "")

FetchedStatus(r, st) == r.ok /\ StatusOf(r) = st
FetchRaised(r) == ~r.ok
FetchedNonTerminal(r) == r.ok /\ StatusOf(r) \notin {"COMPLETE", "FAILED"}

AllRaised(q) == \A i \in 1..Len(q) : FetchRaised(q[i])
AllNonTerminal(q) == \A i \in 1..Len(q) : FetchedNonTerminal(q[i])

\* the three outcomes, as the caller can tell them apart
TimeoutFormats ==
    { "Generation timed out after {} seconds",
      "Motion generation timed out after {} seconds",
      "Variation timed out after {} seconds" }
JobFailedFormats == { "Generation failed: {}", "Variation failed: {}" }

IsSuccess(o) == o.kind = "return"
IsTimeout(o) == o.kind = "raise" /\ o.exc.fmt \in TimeoutFormats
IsRemoteJobFailed(o) == o.kind = "raise" /\ o.exc.fmt \in JobFailedFormats
IsFetchError(o) == o.kind = "raise" /\ o.exc.fmt \in { e.fmt : e \in FetchErrors }

ErrorReport == "[red]Error checking status: {}"
WaitingReports ==
    { "[yellow]Waiting for generation... ({}s)",
      "[yellow]Waiting for video generation... ({}s)",
      "[yellow]Waiting for {} to complete... ({}s)" }

\* this step made a status fetch
Fetched == Len(fetches') = Len(fetches) + 1

----------------------------------------------------------------------------
(* Properties *)

\* C1: in every poll loop, a fetch that succeeds with status FAILED ends the
\* poll at once with the job-failed exception: it is the last fetch, no sleep
\* follows it, and it is not reported as an error of checking the status.
C1_FailedEndsPoll ==
    \A i \in 1..Len(fetches) :
        FetchedStatus(fetches[i], "FAILED") =>
            /\ i = Len(fetches)
            /\ pc = "done"
            /\ IsRemoteJobFailed(outcome)
            /\ Len(sleeps) = i - 1
            /\ Last(sink).fmt # ErrorReport

\* C2: a fetch that succeeds with status COMPLETE, at whatever iteration, is
\* the last fetch of the poll; the poll has returned exactly that record and
\* has not slept after it.
C2_CompleteReturnsRecord ==
    \A i \in 1..Len(fetches) :
        FetchedStatus(fetches[i], "COMPLETE") =>
            /\ i = Len(fetches)
            /\ pc = "done"
            /\ outcome = Return(fetches[i].rec)
            /\ Len(sleeps) = i - 1

C2_Witness ==
    /\ pc = "done"
    /\ Len(fetches) >= 3
    /\ FetchedStatus(Last(fetches), "COMPLETE")
    /\ IsSuccess(outcome)

\* C3: whatever the fetches do, a poll that was called ends, and its elapsed
\* time never exceeds the timeout plus one error backoff of 5 seconds.
C3_BoundedTermination ==
    /\ [](pc # "idle" => Elapsed <= timeout + 5)
    /\ [](pc = "loop" => <>(pc = "done"))

C3_Witness ==
    /\ pc = "done"
    /\ Elapsed > timeout
    /\ \E i, j, k \in 1..Len(fetches) :
         /\ FetchRaised(fetches[i])
         /\ FetchedNonTerminal(fetches[j])
         /\ FetchedStatus(fetches[k], "FAILED")

\* C4: when the while test fails because the elapsed time has reached the
\* timeout, the poll ends with the timed-out exception, whose text carries
\* the timeout argument.
C4_TimeoutNamesBudget ==
    [][ (pc = "loop" /\ Elapsed >= timeout) =>
            /\ pc' = "done"
            /\ IsTimeout(outcome')
            /\ outcome'.exc.args = <<timeout>>
            /\ UNCHANGED <<fetches, sleeps, now>> ]_vars

C4_Witness ==
    /\ pc = "done"
    /\ IsTimeout(outcome)
    /\ outcome.exc.args = <<timeout>>
    /\ Elapsed > timeout
    /\ Len(fetches) >= 2

\* C5: a fetch that raises does not end the poll: the error is reported to
\* the progress task, the loop sleeps 5 seconds and is back at the while
\* test; no exception of a fetch is ever the outcome of the poll.
C5_FetchErrorAbsorbed ==
    /\ [][ (Fetched /\ FetchRaised(Last(fetches'))) =>
              /\ pc' = "loop"
              /\ outcome' = NoOutcome
              /\ sink' = Append(sink, Msg(ErrorReport, <<Last(fetches').exc>>))
              /\ sleeps' = Append(sleeps, 5)
              /\ now' = now + 5 ]_vars
    /\ [](~IsFetchError(outcome))

\* three errors in a row and the poll is still going
C5_Witness ==
    /\ pc = "loop"
    /\ Len(fetches) = 3
    /\ AllRaised(fetches)
    /\ sleeps = <<5, 5, 5>>

\* C6: a fetch that succeeds with a status other than COMPLETE and FAILED
\* (PENDING, RUNNING, unknown, empty, or no status field) keeps the poll
\* going: the elapsed seconds are reported, the loop sleeps 3 seconds and is
\* back at the while test.
C6_NonTerminalKeepsPolling ==
    [][ (Fetched /\ FetchedNonTerminal(Last(fetches'))) =>
           /\ pc' = "loop"
           /\ outcome' = NoOutcome
           /\ Len(sink') = Len(sink) + 1
           /\ Last(sink').fmt \in WaitingReports
           /\ Last(Last(sink').args) = Elapsed
           /\ sleeps' = Append(sleeps, 3)
           /\ now' = now + 3 ]_vars

C6_Witness ==
    /\ pc = "loop"
    /\ Len(fetches) = 3
    /\ "status" \notin DOMAIN fetches[1].rec
    /\ FetchedStatus(fetches[2], "")
    /\ FetchedStatus(fetches[3], "CANCELLED")
    /\ sleeps = <<3, 3, 3>>

\* C7: after N fetches that all raised, with N * 5 < timeout, the poll is
\* still at a while test that holds, so the next fetch is made; and when the
\* fetch after N raising ones returns COMPLETE the poll returns that record.
C7_ErrorsThenComplete ==
    /\ (pc # "idle" /\ AllRaised(fetches) /\ Len(fetches) * 5 < timeout) =>
           (pc = "loop" /\ LoopCond)
    /\ (/\ fetches # <<>>
        /\ AllRaised(SubSeq(fetches, 1, Len(fetches) - 1))
        /\ FetchedStatus(Last(fetches), "COMPLETE")) =>
           (pc = "done" /\ outcome = Return(Last(fetches).rec))

C7_Witness ==
    /\ Len(fetches) = 3
    /\ FetchRaised(fetches[1])
    /\ FetchRaised(fetches[2])
    /\ FetchedStatus(fetches[3], "COMPLETE")
    /\ IsSuccess(outcome)

\* C8: a poll whose fetches all returned a non-terminal status ends only by
\* the timed-out exception, at an elapsed time of at least the timeout and
\* at most the timeout plus one poll interval of 3 seconds.
C8_AlwaysPendingTimesOut ==
    (pc # "idle" /\ AllNonTerminal(fetches)) =>
        /\ Elapsed <= timeout + 3
        /\ pc = "done" => (IsTimeout(outcome) /\ Elapsed >= timeout)

C8_Witness ==
    /\ pc = "done"
    /\ Len(fetches) >= 3
    /\ AllNonTerminal(fetches)
    /\ IsTimeout(outcome)
    /\ Elapsed > timeout

\* C9: when the first fetch returns COMPLETE the poll has returned with one
\* fetch made, no sleep made and the clock where it was at the call.
C9_ImmediateSuccess ==
    (fetches # <<>> /\ FetchedStatus(fetches[1], "COMPLETE")) =>
        /\ Len(fetches) = 1
        /\ sleeps = <<>>
        /\ now = start_time
        /\ pc = "done"
        /\ IsSuccess(outcome)

C9_Witness ==
    /\ pc = "done"
    /\ Len(fetches) = 1
    /\ FetchedStatus(fetches[1], "COMPLETE")
    /\ timeout = 1

\* C10: a poll all of whose fetches raised ends with the timed-out exception
\* and not with the exception of a fetch.
C10_ErrorsEndInTimeout ==
    (pc = "done" /\ fetches # <<>> /\ AllRaised(fetches)) =>
        /\ IsTimeout(outcome)
        /\ ~IsFetchError(outcome)
        /\ Elapsed >= timeout

C10_Witness ==
    /\ pc = "done"
    /\ Len(fetches) >= 2
    /\ AllRaised(fetches)
    /\ IsTimeout(outcome)

\* the statuses read from the fetches so far, "<raised>" for a fetch that raised
StatusSeq(q) == [i \in 1..Len(q) |-> IF q[i].ok THEN StatusOf(q[i]) ELSE "<raised>"]

\* C11: a poll that has ended has ended in exactly one of three ways: it
\* returned (only when the last fetch said COMPLETE), it raised the job-failed
\* exception (only when the last fetch said FAILED), or it raised the
\* timed-out exception (only with the elapsed time at or past the timeout).
C11_ThreeOutcomes ==
    pc = "done" =>
        /\ \/ IsSuccess(outcome) /\ ~IsRemoteJobFailed(outcome) /\ ~IsTimeout(outcome)
           \/ ~IsSuccess(outcome) /\ IsRemoteJobFailed(outcome) /\ ~IsTimeout(outcome)
           \/ ~IsSuccess(outcome) /\ ~IsRemoteJobFailed(outcome) /\ IsTimeout(outcome)
        /\ IsSuccess(outcome) =>
              (fetches # <<>> /\ FetchedStatus(Last(fetches), "COMPLETE"))
        /\ IsRemoteJobFailed(outcome) =>
              (fetches # <<>> /\ FetchedStatus(Last(fetches), "FAILED"))
        /\ IsTimeout(outcome) => Elapsed >= timeout

C11_Witness ==
    /\ pc = "done"
    /\ IsTimeout(outcome)
    /\ \E i \in 1..Len(fetches) : FetchRaised(fetches[i])
    /\ \E i \in 1..Len(fetches) : FetchedStatus(fetches[i], "FAILED")

\* C13: with a timeout of 10 and the fetches answering PENDING, PENDING,
\* COMPLETE, the poll fetches three times, sleeps 3 seconds twice and never
\* 5 seconds, and returns at 6 seconds elapsed.
C13_PendingPendingComplete ==
    timeout = 10 =>
        /\ StatusSeq(fetches) = <<"PENDING">> =>
              (pc = "loop" /\ sleeps = <<3>> /\ Elapsed = 3)
        /\ StatusSeq(fetches) = <<"PENDING", "PENDING">> =>
              (pc = "loop" /\ sleeps = <<3, 3>> /\ Elapsed = 6)
        /\ StatusSeq(fetches) = <<"PENDING", "PENDING", "COMPLETE">> =>
              (pc = "done" /\ IsSuccess(outcome) /\ sleeps = <<3, 3>> /\ Elapsed = 6)
        /\ (Len(fetches) > 3 /\ SubSeq(StatusSeq(fetches), 1, 2) = <<"PENDING", "PENDING">>) =>
              fetches[3].ok /\ StatusOf(fetches[3]) # "COMPLETE"

C13_Witness ==
    /\ timeout = 10
    /\ StatusSeq(fetches) = <<"PENDING", "PENDING", "COMPLETE">>
    /\ pc = "done"
    /\ Elapsed = 6

\* C14: with a timeout of 10, a poll all of whose fetches raise ends with the
\* timed-out exception naming 10 seconds, between 10 and 15 seconds elapsed,
\* and not with the exception of the fetch.
C14_AlwaysErroring ==
    (timeout = 10 /\ pc # "idle" /\ AllRaised(fetches)) =>
        /\ Elapsed <= 15
        /\ pc = "done" =>
              /\ IsTimeout(outcome)
              /\ outcome.exc.args = <<10>>
              /\ ~IsFetchError(outcome)
              /\ Elapsed >= 10

C14_Witness ==
    /\ timeout = 10
    /\ pc = "done"
    /\ Len(fetches) = 2
    /\ AllRaised(fetches)
    /\ outcome.exc.args = <<10>>

\* the positions in the sink of the reports that carry elapsed seconds
ElapsedReports == { i \in 1..Len(sink) : sink[i].fmt \in WaitingReports }
ReportedElapsed(i) == Last(sink[i].args)

\* C15: within one poll the elapsed seconds shown by the progress task never
\* decrease from one report to a later one.
C15_ElapsedMonotone ==
    \A i, j \in ElapsedReports : i < j => ReportedElapsed(i) <= ReportedElapsed(j)

C15_Witness ==
    /\ Cardinality(ElapsedReports) >= 3
    /\ \E i \in 1..Len(fetches) : ~FetchedNonTerminal(fetches[i])

\* C16: every loop iteration updates the progress task at least once,
\* whatever the fetch did.
C16_SinkEveryIteration ==
    [][ Fetched => Len(sink') >= Len(sink) + 1 ]_vars

C16_Witness ==
    /\ Len(fetches) = 3
    /\ FetchRaised(fetches[1])
    /\ FetchedNonTerminal(fetches[2])
    /\ FetchedStatus(fetches[3], "COMPLETE")
    /\ Len(sink) = 4

\* C17: after a fetch says FAILED the poll's outcome is the job-failed
\* exception, carrying the record's error text, or "Unknown error" when the
\* record has no error field.
C17_FailedDetail ==
    \A i \in 1..Len(fetches) :
        FetchedStatus(fetches[i], "FAILED") =>
            /\ IsRemoteJobFailed(outcome)
            /\ outcome.exc.args = <<Get(fetches[i].rec, "error", "Unknown error")>>

\* C20: the sleep after a non-terminal status is 3 seconds at every
\* iteration, the sleep after a fetch that raised is 5 seconds at every
\* iteration, and the second is the longer one.
C20_FixedDelays ==
    /\ \A i \in 1..Len(sleeps) :
          /\ FetchedNonTerminal(fetches[i]) => sleeps[i] = 3
          /\ FetchRaised(fetches[i]) => sleeps[i] = 5
    /\ \A f \in WaitFunctions : ErrorBackoff(f) > PollInterval(f)

C20_Witness ==
    /\ Len(sleeps) = 4
    /\ sleeps[1] = 3 /\ sleeps[2] = 3 /\ sleeps[3] = 3
    /\ sleeps[4] = 5
    /\ FetchRaised(fetches[4])

\* C12: a poll called with an empty id makes no status fetch and ends at
\* once with an invalid-input failure.
C12_EmptyHandleFailsFast ==
    (pc # "idle" /\ job_id = "") =>
        /\ fetches = <<>>
        /\ pc = "done"
        /\ outcome.kind = "raise"
        /\ ~IsTimeout(outcome)

\* what the loop of wait_for_generation sleeps after a fetch that did not
\* say COMPLETE
RefDelay(r) == IF FetchedNonTerminal(r) THEN 3 ELSE 5

LastComplete(q) == q # <<>> /\ FetchedStatus(Last(q), "COMPLETE")

RefSleeps(q) ==
    [i \in 1..(IF LastComplete(q) THEN Len(q) - 1 ELSE Len(q)) |-> RefDelay(q[i])]

\* C19: the four wait loops are one poller: the sleeps made, whether another
\* fetch is made, and the kind of outcome are the same function of the
\* timeout and of the fetch results, whichever of the four loops runs.
C19_SamePoller ==
    pc # "idle" =>
        /\ sleeps = RefSleeps(fetches)
        /\ Elapsed = Sum(RefSleeps(fetches))
        /\ fetches # <<>> =>
              Sum(RefSleeps(SubSeq(fetches, 1, Len(fetches) - 1))) < timeout
        /\ LastComplete(fetches) => (pc = "done" /\ IsSuccess(outcome))
        /\ (~LastComplete(fetches) /\ Elapsed < timeout) => pc = "loop"
        /\ (~LastComplete(fetches) /\ pc = "done") =>
              (IsTimeout(outcome) /\ Elapsed >= timeout)

C19_Witness ==
    /\ fn = "wait_for_motion_generation"
    /\ pc = "done"
    /\ sleeps = <<3, 5, 3>>
    /\ IsTimeout(outcome)

\* what an invocation that runs alone has done after the fetch results q:
\* slept RefSleeps(q) and, once ended, returned or timed out
AsIfAlone(c) ==
    /\ c.sleeps = RefSleeps(c.fetches)
    /\ c.sink # <<>>
    /\ c.pc = "done" =>
          IF LastComplete(c.fetches)
          THEN c.outcome = Return(Last(c.fetches).rec)
          ELSE IsTimeout(c.outcome) /\ Sum(c.sleeps) >= c.timeout

\* C18: two invocations in two threads share no mutable state: nothing one
\* of them uses is in use by the other, and each has the start time, loop
\* state, progress reports and outcome it would have alone.
C18_Independent ==
    \A c \in {Current, other} :
        c.pc # "idle" =>
            /\ console \subseteq {c.tid}
            /\ AsIfAlone(c)

----------------------------------------------------------------------------
\* C26: a poll called with timeout_seconds <= 0 makes no status fetch and no
\* sleep and ends with the Timeout failure that names that timeout, whatever
\* the status endpoint would have answered (COMPLETE included).
C26_NoBudgetNoFetch ==
    /\ (pc # "idle" /\ timeout <= 0) =>
          /\ fetches = <<>>
          /\ sleeps = <<>>
          /\ ~ENABLED (\E r \in FetchResults : LoopIteration(r))
    /\ (pc = "done" /\ timeout <= 0) =>
          /\ IsTimeout(outcome)
          /\ outcome.exc.args = <<timeout>>
          /\ now = start_time

C26_Witness ==
    /\ pc = "done"
    /\ timeout = 0
    /\ fetches = <<>>
    /\ IsTimeout(outcome)

----------------------------------------------------------------------------
(* The generate, video and variation commands: the try block of each, from  *)
(* the create request to the saved files.  The wait function inside it is   *)
(* the loop modelled above.                                                 *)

MaxImages == 2
MaxCommandTimeout == 4

\* --timeout values tried
CommandTimeouts == {0, MaxCommandTimeout}

\* a dict without keys
EmptyDict == <<>>

\* `not x` for an optional string: None and "" are both false
NotTruthy(x) == x = None \/ x = Some("")

\* JSON bodies a create endpoint may answer with
CreateBodies ==
    { [message |-> "accepted"],
      [sdGenerationJob |-> [generationId |-> "job"]],
      [sdGenerationJob |-> [generationId |-> ""]],
      [sdUpscaleJob |-> [id |-> "job"]],
      [sdUnzoomJob |-> [id |-> "job"]],
      [noBackgroundJob |-> [id |-> "job"]] }

\* what client.create_generation / create_motion_generation /
\* create_image_variation does
CreateAnswers ==
    { [ok |-> TRUE, body |-> b, exc |-> NoError] : b \in CreateBodies }
    \cup { [ok |-> FALSE, body |-> [message |-> "none"], exc |-> e] : e \in FetchErrors }

\* video: the image id is given, or the image is uploaded first, which may fail
UploadAnswers == {"given", "uploaded", "raises"}

\* the images of a finished or half-finished generation, with or without URL
Images == { [id |-> "img", url |-> "https://cdn/img"], [id |-> "img"] }
ImageLists == UNION { [1..n -> Images] : n \in 0..MaxImages }

\* status records with the artifacts the commands read; a job that is still
\* PENDING may already show some
CommandRecords ==
    { [id |-> "job", status |-> s] : s \in {"PENDING", "FAILED", "COMPLETE"} }
    \cup { [id |-> "job", status |-> s, generations |-> g] :
             s \in {"PENDING", "COMPLETE"}, g \in ImageLists }
    \cup { [id |-> "job", status |-> s, videoUrl |-> v] :
             s \in {"PENDING", "COMPLETE"}, v \in {"", "https://cdn/video"} }
    \cup { [id |-> "job", status |-> s, imageUrl |-> "", url |-> u] :
             s \in {"PENDING", "COMPLETE"}, u \in {"", "https://cdn/url"} }
    \cup { [id |-> "job", status |-> s, imageUrl |-> "https://cdn/imageUrl"] :
             s \in {"PENDING", "COMPLETE"} }

CommandFetchResults ==
    { [ok |-> TRUE, rec |-> r, exc |-> NoError] : r \in CommandRecords }
    \cup { [ok |-> FALSE, rec |-> NoRecord, exc |-> e] : e \in FetchErrors }

\* the texts of the three commands
CommandTexts(c) ==
    CASE c = "generate" ->
           [ wait     |-> "wait_for_generation",
             started  |-> "Generation started with ID: [bold]{}[/bold]",
             noId     |-> "[bold red]Failed to start generation. No generation ID returned.[/bold red]",
             error    |-> "[bold red]Error generating images: {}[/bold red]",
             nothing  |-> "[bold yellow]No images were generated.[/bold yellow]" ]
      [] c = "video" ->
           [ wait     |-> "wait_for_motion_generation",
             started  |-> "Video generation started with ID: [bold]{}[/bold]",
             noId     |-> "[bold red]Failed to start video generation. No generation ID returned.[/bold red]",
             error    |-> "[bold red]Error generating video: {}[/bold red]",
             nothing  |-> "[bold yellow]No video URL returned in the response.[/bold yellow]" ]
      [] OTHER ->
           [ wait     |-> "wait_for_variation",
             started  |-> "Variation started with ID: [bold]{}[/bold]",
             noId     |-> "[bold red]Failed to start variation. No variation ID returned.[/bold red]",
             error    |-> "[bold red]Error creating variation: {}[/bold red]",
             nothing  |-> "[bold yellow]No image URL found in the response.[/bold yellow]" ]

\* the key of the job in the create response and the key of its id
JobKey(c, vt) ==
    CASE c \in {"generate", "video"} -> [job |-> "sdGenerationJob", id |-> "generationId"]
      [] vt = "upscale" -> [job |-> "sdUpscaleJob", id |-> "id"]
      [] vt = "unzoom" -> [job |-> "sdUnzoomJob", id |-> "id"]
      [] OTHER -> [job |-> "noBackgroundJob", id |-> "id"]

\* response.get(<job key>, {}).get(<id key>)
JobId(body, key) ==
    LET job == Get(body, key.job, EmptyDict)
    IN  IF key.id \in DOMAIN job THEN Some(job[key.id]) ELSE None

\* the except clause of a command: print the error, nothing else
CommandExcept(c, e) == <<Msg(CommandTexts(c).error, <<e>>)>>

\* the start of a command's try block: create the job, then enter the wait
\* function, unless the request raised or the answer has no id
StartCommand(c, vt, before, a, t) ==
    /\ cmd_pc = "idle"
    /\ pc = "idle"
    /\ cmd' = c
    /\ downloads' = <<>>
    /\ files' = <<>>
    /\ IF ~a.ok
       THEN /\ display' = before \o CommandExcept(c, a.exc)
            /\ cmd_pc' = "end"
            /\ UNCHANGED poll_vars
       ELSE LET id == JobId(a.body, JobKey(c, vt)) IN
            IF NotTruthy(id)
            THEN /\ display' = Append(before, Msg(CommandTexts(c).noId, <<>>))
                 /\ cmd_pc' = "end"
                 /\ UNCHANGED poll_vars
            ELSE /\ display' = Append(before, Msg(CommandTexts(c).started, id))
                 /\ cmd_pc' = "wait"
                 /\ Enter(CommandTexts(c).wait, vt, id[1], t)
    /\ UNCHANGED tool_vars

generate(a, t) == StartCommand("generate", "none", <<>>, a, t)

video(u, a, t) ==
    IF u = "raises"
    THEN /\ cmd_pc = "idle"
         /\ pc = "idle"
         /\ cmd' = "video"
         /\ cmd_pc' = "end"
         /\ downloads' = <<>>
         /\ files' = <<>>
         /\ display' = <<Msg("[bold blue]Uploading image: {}[/bold blue]", <<"image.png">>)>>
                          \o CommandExcept("video", Msg("ConnectionError", <<>>))
         /\ UNCHANGED <<poll_vars, tool_vars>>
    ELSE StartCommand("video", "none",
            (IF u = "uploaded"
             THEN << Msg("[bold blue]Uploading image: {}[/bold blue]", <<"image.png">>),
                     Msg("[bold green]Image uploaded successfully with ID: {}[/bold green]",
                         <<"init">>) >>
             ELSE <<>>)
            \o <<Msg("[bold blue]Creating video from image with motion strength: {}[/bold blue]",
                     <<3>>)>>,
            a, t)

variation(vt, a, t) == StartCommand("variation", vt, <<>>, a, t)

\* generate, lines 947-964: download and save image i and those after it;
\* dl[i] tells whether the download of image i succeeds; a failed download
\* raises, which ends the loop in the except clause
RECURSIVE SaveImages(_, _, _, _, _)
SaveImages(images, i, gid, dl, acc) ==
    IF i > Len(images) THEN acc
    ELSE LET image_url == Get(images[i], "url", "")
             output_file == Msg("{}_{}.png", <<gid, i - 1>>)
         IN  IF image_url = ""
             THEN SaveImages(images, i + 1, gid, dl,
                     [acc EXCEPT !.display =
                         Append(@, Msg("[bold yellow]Image {} has no URL.[/bold yellow]", <<i>>))])
             ELSE IF ~dl[i]
             THEN [ display   |-> acc.display \o CommandExcept("generate", Msg("HTTPError", <<>>)),
                    downloads |-> Append(acc.downloads, image_url),
                    files     |-> acc.files ]
             ELSE SaveImages(images, i + 1, gid, dl,
                     [ display   |-> acc.display \o
                          << Msg("Image {} saved to: [bold]{}[/bold]", <<i, output_file>>),
                             Msg("Image ID: [bold]{}[/bold] (Use this ID for video or variations)",
                                 <<Get(images[i], "id", "None")>>) >>,
                       downloads |-> Append(acc.downloads, image_url),
                       files     |-> Append(acc.files, output_file) ])

\* video and variation: download the one artifact and save it
SaveOne(c, url, output_file, found, saved, dl) ==
    IF url = ""
    THEN [ display |-> <<Msg(CommandTexts(c).nothing, <<>>)>>,
           downloads |-> <<>>, files |-> <<>> ]
    ELSE IF ~dl[1]
    THEN [ display |-> found \o CommandExcept(c, Msg("HTTPError", <<>>)),
           downloads |-> <<url>>, files |-> <<>> ]
    ELSE [ display |-> Append(found, Msg(saved, <<output_file>>)),
           downloads |-> <<url>>, files |-> <<output_file>> ]

\* what a command does with the record the wait function returned
UseRecord(c, vt, generation, gid, dl) ==
    CASE c = "generate" ->
           LET images == Get(generation, "generations", <<>>) IN
           IF images = <<>>
           THEN [ display |-> <<Msg(CommandTexts(c).nothing, <<>>)>>,
                  downloads |-> <<>>, files |-> <<>> ]
           ELSE SaveImages(images, 1, gid, dl,
                   [ display |-> <<Msg("[bold green]Successfully generated {} image(s)![/bold green]",
                                       <<Len(images)>>)>>,
                     downloads |-> <<>>, files |-> <<>> ])
      [] c = "video" ->
           LET video_url == Get(generation, "videoUrl", "") IN
           SaveOne(c, video_url, Msg("{}.mp4", <<gid>>),
                   << Msg("[bold green]Video generated successfully![/bold green]", <<>>),
                      Msg("Video URL: [link={}]{}[/link]", <<video_url, video_url>>),
                      Msg("[bold blue]Downloading video...[/bold blue]", <<>>) >>,
                   "[bold green]Video saved to: {}[/bold green]", dl)
      [] OTHER ->
           LET first == Get(generation, "imageUrl", "")
               image_url == IF first # "" THEN first ELSE Get(generation, "url", "")
           IN  SaveOne(c, image_url, Msg("{}_{}.png", <<gid, vt>>),
                   << Msg("[bold green]Variation completed successfully![/bold green]", <<>>),
                      Msg("Image URL: [link={}]{}[/link]", <<image_url, image_url>>),
                      Msg("[bold blue]Downloading the result...[/bold blue]", <<>>) >>,
                   "[bold green]Result saved to: {}[/bold green]", dl)

\* variant: after a failed wait the command goes on with the last record it saw
AfterWaitUsesLastRecord(c, vt, o, gid, dl) ==
    IF o.kind = "raise"
    THEN IF fetches # <<>> /\ fetches[Len(fetches)].ok
         THEN UseRecord(c, vt, fetches[Len(fetches)].rec, gid, dl)
         ELSE [display |-> CommandExcept(c, o.exc), downloads |-> <<>>, files |-> <<>>]
    ELSE UseRecord(c, vt, o.value, gid, dl)

\* the rest of the try block once the wait function has ended with o: an
\* exception goes to the except clause, a returned record to the downloads
AfterWait(c, vt, o, gid, dl) ==
    IF o.kind = "raise"
    THEN [display |-> CommandExcept(c, o.exc), downloads |-> <<>>, files |-> <<>>]
    ELSE UseRecord(c, vt, o.value, gid, dl)

\* the wait function has ended and the command goes on
CommandResumes(dl) ==
    /\ cmd_pc = "wait"
    /\ pc = "done"
    /\ LET rest == AfterWait(cmd, vtype, outcome, job_id, dl) IN
        /\ display' = display \o rest.display
        /\ downloads' = rest.downloads
        /\ files' = rest.files
    /\ cmd_pc' = "end"
    /\ UNCHANGED <<cmd, poll_vars, tool_vars>>

CommandNext ==
    \/ \E a \in CreateAnswers, t \in CommandTimeouts : generate(a, t)
    \/ \E u \in UploadAnswers, a \in CreateAnswers, t \in CommandTimeouts : video(u, a, t)
    \/ \E vt \in VariationTypes, a \in CreateAnswers, t \in CommandTimeouts :
          variation(vt, a, t)
    \/ \E r \in CommandFetchResults : LoopIteration(r)
    \/ LoopExit
    \/ \E dl \in [1..MaxImages -> BOOLEAN] : CommandResumes(dl)

CommandSpec == Init /\ [][CommandNext]_vars

CommandErrorFormats == { CommandTexts(c).error : c \in {"generate", "video", "variation"} }
CommandStartedFormats == { CommandTexts(c).started : c \in {"generate", "video", "variation"} }

\* C21: in generate, video and variation a download is attempted only after
\* the wait function returned a record: when it ended in the job-failed or
\* the timed-out exception, no download request is made, no file is written,
\* and all the command prints after the wait began is the failure.
C21_DownloadOnlyAfterSuccess ==
    /\ (downloads # <<>> \/ files # <<>>) => (cmd_pc = "end" /\ IsSuccess(outcome))
    /\ (cmd_pc = "end" /\ (IsTimeout(outcome) \/ IsRemoteJobFailed(outcome))) =>
          /\ downloads = <<>>
          /\ files = <<>>
          /\ Len(display) >= 2
          /\ Last(display).fmt \in CommandErrorFormats
          /\ Last(display).args = <<outcome.exc>>
          /\ display[Len(display) - 1].fmt \in CommandStartedFormats

C21_Witness ==
    /\ cmd_pc = "end"
    /\ cmd = "generate"
    /\ IsTimeout(outcome)
    /\ fetches # <<>>
    /\ Last(fetches).ok
    /\ "generations" \in DOMAIN Last(fetches).rec
    /\ Last(fetches).rec.generations # <<>>
    /\ downloads = <<>>

----------------------------------------------------------------------------
(* The config file and the commands that read and write it.  The file      *)
(* holds a JSON object with "profiles" (profile name to {"api_key": key})  *)
(* and "active_profile".  A python dict keeps the order in which its keys  *)
(* were inserted, and json keeps that order: profiles is a sequence of     *)
(* [name, data] entries, one for each key.                                 *)

ProfileNames == {"default", "work", "test"}

\* "" is what --api-key "" stores
ApiKeys == {"", "key-a"}

\* key in d
HasKey(d, k) == \E i \in 1..Len(d) : d[i].name = k

\* d[k]
ValueOf(d, k) == d[CHOOSE i \in 1..Len(d) : d[i].name = k].data

\* d[k] = v: a key that is already there keeps its place
SetKey(d, k, v) ==
    IF HasKey(d, k)
    THEN LET i == CHOOSE j \in 1..Len(d) : d[j].name = k
         IN  SubSeq(d, 1, i - 1) \o <<[name |-> k, data |-> v]>> \o SubSeq(d, i + 1, Len(d))
    ELSE Append(d, [name |-> k, data |-> v])

\* del d[k]
DelKey(d, k) == SelectSeq(d, LAMBDA e : e.name # k)

\* next(iter(d.keys()))
FirstKey(d) == d[1].name

\* a config file with the JSON object c
File(c) == [exists |-> TRUE, json |-> c]

\* `not config or "profiles" not in config` after config = load_config()
NoProfiles(file) == ~file.exists \/ "profiles" \notin DOMAIN file.json

\* variant: the profiles section is built anew on every save
save_config_resets_profiles(file, api_key, profile) ==
    File([ profiles |-> <<[name |-> profile, data |-> [api_key |-> api_key]]>>,
           active_profile |-> profile ])

\* save_config: load the file if it exists, add or update the profile, make
\* it the active one, write the file
save_config(file, api_key, profile) ==
    LET profiles == IF NoProfiles(file) THEN <<>> ELSE file.json.profiles
    IN  File([ profiles |-> SetKey(profiles, profile, [api_key |-> api_key]),
               active_profile |-> profile ])

\* get_api_key(profile): the key of the given profile, else of the active one
get_api_key(file, profile) ==
    IF NoProfiles(file) THEN None
    ELSE LET profile_name == IF NotTruthy(profile)
                             THEN Get(file.json, "active_profile", "default")
                             ELSE profile[1]
         IN  IF ~HasKey(file.json.profiles, profile_name) THEN None
             ELSE Some(ValueOf(file.json.profiles, profile_name).api_key)

\* variant: the sys.exit is missing and the client is built with what there is
get_client_without_exit(file, profile) ==
    LET api_key == get_api_key(file, profile)
    IN  [ exit    |-> None,
          printed |-> IF NotTruthy(api_key)
                      THEN << Msg("[bold red]No API key configured![/bold red]", <<>>),
                              Msg("Please run: leonardo-cli configure", <<>>) >>
                      ELSE <<>>,
          clients |-> <<api_key>> ]

\* get_client: without a key print and sys.exit(1), else LeonardoClient(api_key)
get_client(file, profile) ==
    LET api_key == get_api_key(file, profile)
    IN  IF NotTruthy(api_key)
        THEN [ exit    |-> Some(1),
               printed |-> << Msg("[bold red]No API key configured![/bold red]", <<>>),
                              Msg("Please run: leonardo-cli configure", <<>>) >>,
               clients |-> <<>> ]
        ELSE [ exit |-> None, printed |-> <<>>, clients |-> <<api_key>> ]

\* get_client of leonardo_cli_fixed.py: the key is os.getenv('LEONARDO_API_KEY')
fixed_get_client(env) ==
    IF NotTruthy(env)
    THEN [ exit    |-> Some(1),
           printed |-> << Msg("[bold red]No API key found![/bold red]", <<>>),
                          Msg("Please set LEONARDO_API_KEY environment variable or run: leonardo-cli configure",
                              <<>>) >>,
           clients |-> <<>> ]
    ELSE [ exit |-> None, printed |-> <<>>, clients |-> <<env>> ]

\* what GET /me does: a body, or an exception of requests
MeAnswers ==
    { [ok |-> TRUE, body |-> [user |-> [username |-> "ada"]], exc |-> NoError],
      [ok |-> TRUE, body |-> [message |-> "empty"], exc |-> NoError],
      [ok |-> FALSE, body |-> [message |-> "none"], exc |-> Msg("HTTPError", <<401>>)] }

\* the values of the environment variable LEONARDO_API_KEY
EnvValues == {None, Some(""), Some("key-e")}

\* the configure command
configure(api_key, profile, me) ==
    /\ config' = save_config(config, api_key, profile)
    /\ run' = [ cmd       |-> "configure",
                args      |-> <<api_key, profile>>,
                exit_code |-> 0,
                printed   |->
                    <<Msg("[bold green]Configuration saved under profile '[italic]{}[/italic]'![/bold green]",
                          <<profile>>)>>
                    \o (IF me.ok
                        THEN << Msg("[bold green]API key verified successfully![/bold green]", <<>>),
                                Msg("Logged in as: {}",
                                    <<Get(Get(me.body, "user", EmptyDict), "username", "Unknown")>>) >>
                        ELSE <<Msg("[bold red]Error verifying API key: {}[/bold red]", <<me.exc>>)>>),
                clients   |-> <<Some(api_key)>>,
                requests  |-> <<"GET /me">> ]
    /\ UNCHANGED <<poll_vars, command_vars, shell, batch, listing>>

\* variant: the profile is made active without looking it up
use_profile_unchecked(profile) ==
    /\ config' = IF NoProfiles(config) THEN config
                 ELSE File([ profiles |-> config.json.profiles,
                             active_profile |-> profile ])
    /\ run' = [ cmd |-> "use_profile", args |-> <<profile>>, exit_code |-> 0,
                printed |-> <<>>, clients |-> <<>>, requests |-> <<>> ]
    /\ UNCHANGED <<poll_vars, command_vars, shell, batch, listing>>

\* the use-profile command
use_profile(profile) ==
    /\ IF NoProfiles(config)
       THEN /\ config' = config
            /\ run' = [ cmd |-> "use_profile", args |-> <<profile>>, exit_code |-> 0,
                        printed |-> <<Msg("[bold red]No profiles configured. Run 'leonardo-cli configure' first.[/bold red]",
                                          <<>>)>>,
                        clients |-> <<>>, requests |-> <<>> ]
       ELSE IF ~HasKey(config.json.profiles, profile)
       THEN /\ config' = config
            /\ run' = [ cmd |-> "use_profile", args |-> <<profile>>, exit_code |-> 0,
                        printed |->
                            <<Msg("[bold red]Profile '{}' not found. Available profiles:[/bold red]",
                                  <<profile>>)>>
                            \o [i \in 1..Len(config.json.profiles) |->
                                   Msg("  - {}", <<config.json.profiles[i].name>>)],
                        clients |-> <<>>, requests |-> <<>> ]
       ELSE /\ config' = File([ profiles |-> config.json.profiles,
                                active_profile |-> profile ])
            /\ run' = [ cmd |-> "use_profile", args |-> <<profile>>, exit_code |-> 0,
                        printed |-> <<Msg("[bold green]Now using profile: [italic]{}[/italic][/bold green]",
                                          <<profile>>)>>,
                        clients |-> <<>>, requests |-> <<>> ]
    /\ UNCHANGED <<poll_vars, command_vars, shell, batch, listing>>

\* the config after `del config["profiles"][profile]` and the repair of
\* active_profile
AfterDelete(c, profile) ==
    LET rest == DelKey(c.profiles, profile)
    IN  IF "active_profile" \in DOMAIN c /\ c.active_profile = profile
        THEN IF rest # <<>>
             THEN [profiles |-> rest, active_profile |-> FirstKey(rest)]
             ELSE [profiles |-> rest]
        ELSE IF "active_profile" \in DOMAIN c
             THEN [profiles |-> rest, active_profile |-> c.active_profile]
             ELSE [profiles |-> rest]

\* variant: the profile is deleted and active_profile is left as it is
delete_profile_keeps_active(profile) ==
    /\ config' = IF NoProfiles(config) \/ ~HasKey(config.json.profiles, profile)
                 THEN config
                 ELSE File(IF "active_profile" \in DOMAIN config.json
                           THEN [ profiles |-> DelKey(config.json.profiles, profile),
                                  active_profile |-> config.json.active_profile ]
                           ELSE [ profiles |-> DelKey(config.json.profiles, profile) ])
    /\ run' = [ cmd |-> "delete_profile", args |-> <<profile>>, exit_code |-> 0,
                printed |-> <<>>, clients |-> <<>>, requests |-> <<>> ]
    /\ UNCHANGED <<poll_vars, command_vars, shell, batch, listing>>

\* the delete-profile command
delete_profile(profile) ==
    /\ IF NoProfiles(config)
       THEN /\ config' = config
            /\ run' = [ cmd |-> "delete_profile", args |-> <<profile>>, exit_code |-> 0,
                        printed |-> <<Msg("[bold red]No profiles configured.[/bold red]", <<>>)>>,
                        clients |-> <<>>, requests |-> <<>> ]
       ELSE IF ~HasKey(config.json.profiles, profile)
       THEN /\ config' = config
            /\ run' = [ cmd |-> "delete_profile", args |-> <<profile>>, exit_code |-> 0,
                        printed |-> <<Msg("[bold red]Profile '{}' not found.[/bold red]",
                                          <<profile>>)>>,
                        clients |-> <<>>, requests |-> <<>> ]
       ELSE LET c == AfterDelete(config.json, profile) IN
            /\ config' = File(c)
            /\ run' = [ cmd |-> "delete_profile", args |-> <<profile>>, exit_code |-> 0,
                        printed |->
                            <<Msg("[bold green]Profile '[italic]{}[/italic]' deleted.[/bold green]",
                                  <<profile>>)>>
                            \o (IF "active_profile" \in DOMAIN c
                                THEN <<Msg("Active profile is now: [italic]{}[/italic]",
                                           <<c.active_profile>>)>>
                                ELSE <<>>),
                        clients |-> <<>>, requests |-> <<>> ]
    /\ UNCHANGED <<poll_vars, command_vars, shell, batch, listing>>

\* the rest of a user command once get_client has answered: sys.exit(1)
\* ends the process; else GET /me, whose exception nothing catches
UserRun(name, args, client, me) ==
    IF client.exit # None
    THEN [ cmd |-> name, args |-> args, exit_code |-> client.exit[1],
           printed |-> client.printed, clients |-> client.clients, requests |-> <<>> ]
    ELSE [ cmd |-> name, args |-> args,
           exit_code |-> IF me.ok THEN 0 ELSE 1,
           printed |-> client.printed
                       \o (IF me.ok THEN <<Msg("User Information", <<>>)>> ELSE <<>>),
           clients |-> client.clients,
           requests |-> <<"GET /me">> ]

\* the user command
user(me) ==
    /\ run' = UserRun("user", <<>>, get_client(config, None), me)
    /\ UNCHANGED <<config, poll_vars, command_vars, shell, batch, listing>>

\* the user command of leonardo_cli_fixed.py, run with LEONARDO_API_KEY = env
fixed_user(env, me) ==
    /\ run' = UserRun("fixed.user", <<env>>, fixed_get_client(env), me)
    /\ UNCHANGED <<config, poll_vars, command_vars, shell, batch, listing>>

ConfigNext ==
    \/ \E k \in ApiKeys, p \in ProfileNames, me \in MeAnswers : configure(k, p, me)
    \/ \E p \in ProfileNames : use_profile(p)
    \/ \E p \in ProfileNames : delete_profile(p)
    \/ \E me \in MeAnswers : user(me)
    \/ \E env \in EnvValues, me \in MeAnswers : fixed_user(env, me)

ConfigSpec == Init /\ [][ConfigNext]_vars

\* config["active_profile"], when the key is there
ActiveProfile(file) ==
    IF file.exists /\ "active_profile" \in DOMAIN file.json
    THEN Some(file.json.active_profile)
    ELSE None

\* config["profiles"], empty when there is none
Profiles(file) == IF NoProfiles(file) THEN <<>> ELSE file.json.profiles

C23_ActiveProfileExists ==
    config.exists =>
        /\ "profiles" \in DOMAIN config.json
        /\ ActiveProfile(config) # None =>
              HasKey(config.json.profiles, ActiveProfile(config)[1])
        /\ ActiveProfile(config) = None => config.json.profiles = <<>>

C23_Witness ==
    /\ run.cmd = "delete_profile"
    /\ Len(run.printed) = 2
    /\ run.printed[2].args # run.printed[1].args
    /\ Len(Profiles(config)) = 2
    /\ ActiveProfile(config) = Some(FirstKey(Profiles(config)))

\* C24: use-profile and delete-profile with a name that is not in the config
\* leave the whole config as it is, and deleting a profile that is not the
\* active one leaves active_profile as it is.
C24_UnknownNameChangesNothing ==
    [][ /\ ( /\ run'.cmd \in {"use_profile", "delete_profile"}
             /\ ~HasKey(Profiles(config), run'.args[1]) ) => config' = config
        /\ ( /\ run'.cmd = "delete_profile"
             /\ HasKey(Profiles(config), run'.args[1])
             /\ ActiveProfile(config) # Some(run'.args[1]) ) =>
               /\ ActiveProfile(config') = ActiveProfile(config)
               /\ ~HasKey(Profiles(config'), run'.args[1]) ]_vars

C24_Witness ==
    /\ run.cmd = "use_profile"
    /\ Len(Profiles(config)) = 2
    /\ ~HasKey(Profiles(config), run.args[1])
    /\ run.printed[1].args = run.args

\* C25: save_config(api_key, profile) stores api_key under the profile, makes
\* the profile the active one and leaves the key of every other profile as it
\* was; get_api_key() then returns exactly that api_key.
C25_SaveThenRead ==
    [][ run'.cmd = "configure" =>
          LET api_key == run'.args[1]
              profile == run'.args[2]
          IN  /\ HasKey(Profiles(config'), profile)
              /\ ValueOf(Profiles(config'), profile) = [api_key |-> api_key]
              /\ ActiveProfile(config') = Some(profile)
              /\ \A i \in 1..Len(Profiles(config)) :
                    LET e == Profiles(config)[i] IN
                    e.name # profile =>
                        /\ HasKey(Profiles(config'), e.name)
                        /\ ValueOf(Profiles(config'), e.name) = e.data
              /\ Len(Profiles(config')) =
                    Len(Profiles(config)) + (IF HasKey(Profiles(config), profile) THEN 0 ELSE 1)
              /\ get_api_key(config', None) = Some(api_key) ]_vars

C25_Witness ==
    /\ run.cmd = "configure"
    /\ run.args[1] = ""
    /\ Len(Profiles(config)) = 3
    /\ get_api_key(config, None) = Some("")
    /\ \E i \in 1..3 : Profiles(config)[i].data.api_key = "key-a"

----------------------------------------------------------------------------
(* The interactive shell.  A line typed at the prompt is a sequence of      *)
(* lexemes: words, the blank " " and the double quote.  input() gives a     *)
(* line, or raises EOFError at the end of the input.                        *)

Quote == "\""

ShellLines ==
    { <<"exit">>, <<"Exit">>, <<"QUIT">>, <<"exit", " ">>, <<"help">>, <<"HELP">>,
      <<>>, <<" ">>, <<"bogus">>, <<Quote, Quote>>,
      <<"user">>, <<Quote, "user", Quote>>, <<"user", " ", Quote, "x">>,
      <<"user", " ", "--bogus">>, <<"profiles">> }

ShellInputs ==
    { [kind |-> "line", text |-> l] : l \in ShellLines }
    \cup { [kind |-> "EOFError", text |-> <<>>] }

\* str.lower() on the words of the lines
LowerWord(w) ==
    CASE w = "Exit" -> "exit"
      [] w = "QUIT" -> "quit"
      [] w = "HELP" -> "help"
      [] OTHER -> w

RECURSIVE Lower(_)
Lower(line) ==
    IF line = <<>> THEN <<>> ELSE <<LowerWord(Head(line))>> \o Lower(Tail(line))

\* `not command.strip()`: nothing but blanks
Blank(line) == \A i \in 1..Len(line) : line[i] = " "

\* shlex.split: blanks separate the arguments, a pair of double quotes holds
\* one argument together, an unclosed quote raises ValueError.  `cur` is the
\* argument being read, if one is open.
RECURSIVE ShlexScan(_, _, _, _)
ShlexScan(rest, quoted, cur, args) ==
    IF rest = <<>>
    THEN IF quoted THEN [ok |-> FALSE, args |-> <<>>]
         ELSE [ok |-> TRUE, args |-> args \o cur]
    ELSE LET c == Head(rest) IN
         IF quoted
         THEN IF c = Quote
              THEN ShlexScan(Tail(rest), FALSE, cur, args)
              ELSE ShlexScan(Tail(rest), TRUE, <<cur[1] \o <<c>>>>, args)
         ELSE IF c = Quote
              THEN ShlexScan(Tail(rest), TRUE, IF cur = <<>> THEN <<<<>>>> ELSE cur, args)
         ELSE IF c = " "
              THEN ShlexScan(Tail(rest), FALSE, <<>>, args \o cur)
         ELSE ShlexScan(Tail(rest), FALSE,
                        IF cur = <<>> THEN <<<<c>>>> ELSE <<cur[1] \o <<c>>>>, args)

ShlexSplit(line) == ShlexScan(line, FALSE, <<>>, <<>>)

\* cli.commands: the names of the registered commands
CliCommands ==
    { "configure", "profiles", "use-profile", "delete-profile", "user", "models",
      "generate", "img2img", "image-guidance", "video", "status", "video-status",
      "variation", "usage", "estimate", "shell" }

\* how a command run with main(args, standalone_mode=False) can end when it
\* does not end the process
CommandOutcomes == {"return", "Exit", "UsageError", "Abort", "Exception"}

\* cli.commands[cmd_name].main(cmd_args, ...): the user command calls
\* get_client first, whose sys.exit(1) raises SystemExit
RunInShell(cmd_name, cmd_args, file, o) ==
    IF cmd_name = <<"user">> /\ cmd_args = <<>> /\ get_client(file, None).exit # None
    THEN "SystemExit"
    ELSE o

\* the except clauses of the loop: Exit, UsageError, Abort and Exception;
\* SystemExit is not an Exception
ShellCatches(raised) == raised \in {"Exit", "UsageError", "Abort", "Exception"}

ShellAt(where, in, raised) == [pc |-> where, input |-> in, raised |-> raised]

\* one pass of the `while True` loop on the input `in`
ShellStep(in, o, file) ==
    IF in.kind = "EOFError" THEN ShellAt("prompt", in, "Exception")
    ELSE LET command == in.text IN
         IF Lower(command) \in {<<"exit">>, <<"quit">>} THEN ShellAt("ended", in, "none")
         ELSE IF Lower(command) = <<"help">> THEN ShellAt("prompt", in, "none")
         ELSE IF Blank(command) THEN ShellAt("prompt", in, "none")
         ELSE LET split == ShlexSplit(command) IN
              IF ~split.ok THEN ShellAt("prompt", in, "ValueError")
              ELSE IF split.args = <<>> THEN ShellAt("prompt", in, "none")
              ELSE IF \A n \in CliCommands : Head(split.args) # <<n>>
                   THEN ShellAt("prompt", in, "unknown")
              ELSE LET raised == RunInShell(Head(split.args), Tail(split.args), file, o)
                   IN  IF raised = "return" THEN ShellAt("prompt", in, "none")
                       ELSE IF ShellCatches(raised) THEN ShellAt("prompt", in, raised)
                       ELSE ShellAt("ended", in, raised)

\* the shell command is started: it prints its welcome and prompts
ShellStart ==
    /\ shell.pc = "off"
    /\ shell' = ShellAt("prompt", shell.input, "none")
    /\ UNCHANGED <<config, run, batch, listing, poll_vars, command_vars>>

\* a line is entered at the prompt; user and profiles leave the config alone
ShellIteration(in, o) ==
    /\ shell.pc = "prompt"
    /\ shell' = ShellStep(in, o, config)
    /\ UNCHANGED <<config, run, batch, listing, poll_vars, command_vars>>

\* the shell, and the config commands run from another terminal
ShellNext ==
    \/ ShellStart
    \/ \E in \in ShellInputs, o \in CommandOutcomes : ShellIteration(in, o)
    \/ \E k \in ApiKeys, p \in ProfileNames, me \in MeAnswers : configure(k, p, me)
    \/ \E p \in ProfileNames : delete_profile(p)

ShellSpec == Init /\ [][ShellNext]_vars

\* C27: the shell loop ends only when the line entered is exit or quit in
\* any case of letters; an empty line, help, an unknown command, a line that
\* cannot be split, and a command that raises a usage error, an abort or any
\* other exception bring the shell back to the prompt.
C27_EndsOnlyOnExit ==
    /\ shell.pc = "ended" =>
          /\ shell.input.kind = "line"
          /\ Lower(shell.input.text) \in {<<"exit">>, <<"quit">>}
    /\ shell.raised \in {"ValueError", "unknown", "Exit", "UsageError", "Abort", "Exception"} =>
          shell.pc = "prompt"

----------------------------------------------------------------------------
(* BatchProcessor.process_batch (advanced_features.py) and                  *)
(* LeonardoClient.list_models, each called once with the answers the API    *)
(* gives to its requests.                                                   *)

MaxPrompts == 3

Prompts == {"a cat", "a dog"}

PromptLists == UNION { [1..n -> Prompts] : n \in 0..MaxPrompts }

\* what client.create_generation does for one prompt of a batch
BatchAnswers ==
    { a \in CreateAnswers :
        ~a.ok \/ a.body \in { [message |-> "accepted"],
                              [sdGenerationJob |-> [generationId |-> "job"]],
                              [sdGenerationJob |-> [generationId |-> ""]] } }

\* the body of the for loop for one prompt: the entry appended to results
BatchEntry(prompt, a) ==
    IF ~a.ok
    THEN [ prompt |-> prompt, generation_id |-> None, status |-> "error", error |-> a.exc ]
    ELSE LET generation_id == JobId(a.body, [job |-> "sdGenerationJob", id |-> "generationId"])
         IN  IF NotTruthy(generation_id)
             THEN [ prompt |-> prompt, generation_id |-> None, status |-> "failed" ]
             ELSE [ prompt |-> prompt, generation_id |-> generation_id, status |-> "started" ]

\* variant: the first submission that raises ends the loop
RECURSIVE BatchLoopStopsOnError(_, _, _, _)
BatchLoopStopsOnError(prompts, answers, i, acc) ==
    IF i > Len(prompts) THEN acc
    ELSE LET next == [ submitted |-> Append(acc.submitted, prompts[i]),
                       results   |-> Append(acc.results, BatchEntry(prompts[i], answers[i])) ]
         IN  IF ~answers[i].ok THEN next
             ELSE BatchLoopStopsOnError(prompts, answers, i + 1, next)

\* the for loop from prompt i on: submit the prompt, append its entry
RECURSIVE BatchLoop(_, _, _, _)
BatchLoop(prompts, answers, i, acc) ==
    IF i > Len(prompts) THEN acc
    ELSE BatchLoop(prompts, answers, i + 1,
                   [ submitted |-> Append(acc.submitted, prompts[i]),
                     results   |-> Append(acc.results, BatchEntry(prompts[i], answers[i])) ])

\* variant of process_batch with the loop that stops
process_batch_stops_on_error(prompts, answers) ==
    /\ ~batch.called
    /\ LET done == BatchLoopStopsOnError(prompts, answers, 1,
                                         [submitted |-> <<>>, results |-> <<>>])
       IN  batch' = [ called |-> TRUE, prompts |-> prompts, answers |-> answers,
                      submitted |-> done.submitted, results |-> done.results ]
    /\ UNCHANGED <<config, run, shell, listing, poll_vars, command_vars>>

\* process_batch(prompts, settings, client); answers[i] is what the API does
\* with the i-th submission
process_batch(prompts, answers) ==
    /\ ~batch.called
    /\ LET done == BatchLoop(prompts, answers, 1, [submitted |-> <<>>, results |-> <<>>])
       IN  batch' = [ called |-> TRUE, prompts |-> prompts, answers |-> answers,
                      submitted |-> done.submitted, results |-> done.results ]
    /\ UNCHANGED <<config, run, shell, listing, poll_vars, command_vars>>

\* exceptions of requests.get, raise_for_status and response.json
ListErrors ==
    { Msg("ConnectionError", <<>>), Msg("HTTPError", <<404>>), Msg("JSONDecodeError", <<>>) }

\* what GET /platformModels does
PlatformAnswers ==
    { [ok |-> TRUE, body |-> b, exc |-> NoError] :
        b \in { [platformModels |-> <<[id |-> "m1"], [id |-> "m2"]>>],
                [platformModels |-> <<>>],
                [message |-> "ok"] } }
    \cup { [ok |-> FALSE, body |-> [message |-> "none"], exc |-> e] : e \in ListErrors }

\* what GET /models does
LegacyAnswers ==
    { [ok |-> TRUE, body |-> b, exc |-> NoError] :
        b \in { [models |-> <<[id |-> "m3"]>>],
                [models |-> <<>>],
                [message |-> "ok"] } }
    \cup { [ok |-> FALSE, body |-> [message |-> "none"], exc |-> e] : e \in ListErrors }

PlatformWarning(e) ==
    Msg("[bold yellow]Warning: Could not fetch models using platformModels endpoint: {}[/bold yellow]",
        <<e>>)

LegacyWarning(e) ==
    Msg("[bold yellow]Warning: Could not fetch models using legacy endpoint: {}[/bold yellow]",
        <<e>>)

\* variant: the legacy request has no try block of its own
ListModelsLegacyUnguarded(first, second) ==
    IF first.ok
    THEN [ called |-> TRUE, answers |-> <<first>>, requests |-> <<"platformModels">>,
           warnings |-> <<>>,
           result |-> Return([models |-> Get(first.body, "platformModels", <<>>)]) ]
    ELSE [ called |-> TRUE, answers |-> <<first, second>>,
           requests |-> <<"platformModels", "models">>,
           warnings |-> <<PlatformWarning(first.exc)>>,
           result |-> IF second.ok THEN Return(second.body) ELSE Raise(second.exc) ]

\* list_models: the platformModels endpoint, then the legacy one in the
\* except clause, then the empty list in the inner except clause
ListModels(first, second) ==
    IF first.ok
    THEN [ called |-> TRUE, answers |-> <<first>>, requests |-> <<"platformModels">>,
           warnings |-> <<>>,
           result |-> Return([models |-> Get(first.body, "platformModels", <<>>)]) ]
    ELSE IF second.ok
    THEN [ called |-> TRUE, answers |-> <<first, second>>,
           requests |-> <<"platformModels", "models">>,
           warnings |-> <<PlatformWarning(first.exc)>>,
           result |-> Return(second.body) ]
    ELSE [ called |-> TRUE, answers |-> <<first, second>>,
           requests |-> <<"platformModels", "models">>,
           warnings |-> <<PlatformWarning(first.exc), LegacyWarning(second.exc)>>,
           result |-> Return([models |-> <<>>]) ]

list_models(first, second) ==
    /\ ~listing.called
    /\ listing' = ListModels(first, second)
    /\ UNCHANGED <<config, run, shell, batch, poll_vars, command_vars>>

\* each of the two is called once
ClientNext ==
    \/ /\ ~batch.called
       /\ \E prompts \in PromptLists :
             \E answers \in [1..Len(prompts) -> BatchAnswers] : process_batch(prompts, answers)
    \/ /\ ~listing.called
       /\ \E first \in PlatformAnswers, second \in LegacyAnswers : list_models(first, second)

ClientSpec == Init /\ [][ClientNext]_vars

\* the answer carries a generation id
HasGenerationId(a) ==
    /\ a.ok
    /\ "sdGenerationJob" \in DOMAIN a.body
    /\ a.body.sdGenerationJob.generationId # ""

\* C28: process_batch returns one result for each prompt, in the order of the
\* prompts; a submission that raises is recorded with status error, one that
\* gives no generation id with status failed, both with generation_id None,
\* and every prompt is submitted whatever happened to those before it.
C28_OneResultPerPrompt ==
    batch.called =>
        /\ Len(batch.results) = Len(batch.prompts)
        /\ batch.submitted = batch.prompts
        /\ \A i \in 1..Len(batch.results) :
              LET r == batch.results[i]
                  a == batch.answers[i]
              IN  /\ r.prompt = batch.prompts[i]
                  /\ ~a.ok => (r.status = "error" /\ r.generation_id = None)
                  /\ (a.ok /\ ~HasGenerationId(a)) =>
                        (r.status = "failed" /\ r.generation_id = None)
                  /\ HasGenerationId(a) =>
                        (r.status = "started" /\ r.generation_id = Some("job"))

C28_Witness ==
    /\ batch.called
    /\ Len(batch.prompts) = 3
    /\ ~batch.answers[1].ok
    /\ batch.answers[2].ok /\ ~HasGenerationId(batch.answers[2])
    /\ batch.results[3].status = "started"

BothFailed == Len(listing.answers) = 2 /\ ~listing.answers[1].ok /\ ~listing.answers[2].ok

EmptyListReturned ==
    /\ listing.result.kind = "return"
    /\ "models" \in DOMAIN listing.result.value
    /\ listing.result.value.models = <<>>

\* C29 as stated: list_models never raises, queries platformModels first and
\* the legacy endpoint only if the first request failed, and returns an empty
\* model list only if both requests failed.
C29_EmptyOnlyIfBothFailed ==
    listing.called =>
        /\ listing.result.kind = "return"
        /\ listing.requests[1] = "platformModels"
        /\ Len(listing.requests) = 2 => (listing.requests[2] = "models" /\ ~listing.answers[1].ok)
        /\ EmptyListReturned => BothFailed

\* the models in the answer that list_models passes on
ModelsAnswered ==
    IF listing.answers[1].ok
    THEN Get(listing.answers[1].body, "platformModels", <<>>)
    ELSE Get(listing.answers[2].body, "models", <<>>)

\* C29 as amended: list_models never raises, queries platformModels first and
\* the legacy endpoint only if the first request failed; it returns an empty
\* model list when both requests failed, and otherwise only when the answer
\* it passes on has no models: the first answer's platformModels under the
\* key models, else the legacy answer as it is.
C29_EmptyIfBothFailedOrNoModels ==
    listing.called =>
        /\ listing.result.kind = "return"
        /\ listing.requests[1] = "platformModels"
        /\ Len(listing.requests) = 2 => (listing.requests[2] = "models" /\ ~listing.answers[1].ok)
        /\ listing.answers[1].ok => Len(listing.requests) = 1
        /\ BothFailed => EmptyListReturned
        /\ EmptyListReturned => (BothFailed \/ ModelsAnswered = <<>>)
        /\ listing.answers[1].ok => listing.result.value = [models |-> ModelsAnswered]
        /\ (~listing.answers[1].ok /\ listing.answers[2].ok) =>
              listing.result.value = listing.answers[2].body

C29_Witness ==
    /\ listing.called
    /\ BothFailed
    /\ EmptyListReturned
    /\ Len(listing.warnings) = 2

====
